---- MODULE Spec2Model ----
(***************************************************************************)
(* A model of the esssans SANS reduction workflow as the documentation     *)
(* notebooks of the repository drive it: a pipeline of typed providers     *)
(* (parameters, compute requests, background subtraction), the two beam    *)
(* centre finders and the direct-beam iterations.                          *)
(*                                                                         *)
(* Real numbers are modelled exactly where that is cheap (beam centres     *)
(* are rationals sx/w, sy/w) and as fixed-point integers in units of       *)
(* 1/Scale otherwise (intensities, direct-beam values).                    *)
(***************************************************************************)
EXTENDS Integers, Sequences, FiniteSets, TLC

(***************************************************************************)
(* Bounds of the model.                                                    *)
(***************************************************************************)
PanelMax == 3
NLambda == 2
NLayers == 2
Scale == 12
Grid == 2

(***************************************************************************)
(* Detector panel, wavelength bins, beam centres.                          *)
(***************************************************************************)
Pixels == (0..PanelMax) \X (0..PanelMax)
Lambdas == 1..NLambda
Cells == Pixels \X Lambdas

Centre(sx, sy, w) == [sx |-> sx, sy |-> sy, w |-> w]
Dx(p, c) == p[1] * c.w - c.sx
Dy(p, c) == p[2] * c.w - c.sy
R2(p, c) == Dx(p, c) * Dx(p, c) + Dy(p, c) * Dy(p, c)

\* the sum of f[x] over the x in S
RECURSIVE SumOver(_, _)
SumOver(S, f) ==
    IF S = {} THEN 0
    ELSE LET x == CHOOSE y \in S : TRUE
         IN f[x] + SumOver(S \ {x}, f)

Max(a, b) == IF a >= b THEN a ELSE b

(***************************************************************************)
(* Data files.  A file name stands for the file's content: synthetic       *)
(* scattering that is circularly symmetric in Q about (cx, cy), with a     *)
(* flat background bg and a detector efficiency that varies with           *)
(* wavelength (tilt).  MissingFile names a file that cannot be loaded.     *)
(***************************************************************************)
File(cx, cy, amp, bg, tilt) ==
    [exists |-> TRUE, cx |-> cx, cy |-> cy, amp |-> amp, bg |-> bg, tilt |-> tilt]
MissingFile ==
    [exists |-> FALSE, cx |-> 0, cy |-> 0, amp |-> 0, bg |-> 0, tilt |-> 0]

Flux(l) == NLambda + 1 - l
Eff(f, l) == 1 + f.tilt * (l - 1)
\* floor of Q^2, in units of 1/NLambda^2, of pixel p at wavelength l seen from c
Shell(p, l, c) == (NLambda * NLambda * R2(p, c)) \div (l * l * c.w * c.w)
Scatter(f, p, l) == Max(0, f.amp - Shell(p, l, Centre(f.cx, f.cy, Grid))) + f.bg
Counts(f, p, l) == Scatter(f, p, l) * Flux(l) * Eff(f, l)

(***************************************************************************)
(* Parameters.  A parameter is a set holding at most one value: {} is a    *)
(* parameter that has not been set.                                        *)
(***************************************************************************)
ParamNames ==
    {"FilenameSample", "FilenameBackground", "BeamCenter", "QBins",
     "UncertaintyBroadcastMode", "WavelengthBands", "DirectBeam",
     "LowCountThreshold", "DimsToKeep"}
Val(s) == CHOOSE v \in s : TRUE
NoBands == <<>>
NoDims == <<>>
KeepLayer == << "layer" >>
FlatBeam == [edges |-> <<>>, vals |-> <<>>]

(***************************************************************************)
(* Providers.                                                              *)
(***************************************************************************)
LoadDetector(file, centre) ==
    [counts  |-> [c \in Cells |-> Counts(file, c[1], c[2])],
     monitor |-> [l \in Lambdas |-> Flux(l)],
     centre  |-> centre,
     masked  |-> {}]

PixelCounts(det, p) == SumOver({c \in Cells : c[1] = p}, det.counts)

MaskData(det, threshold) ==
    [det EXCEPT !.masked = {p \in Pixels : PixelCounts(det, p) < threshold}]

\* (mutant) a band takes everything below its upper edge
BandSetsCumulative(bands) ==
    IF bands = NoBands THEN << Lambdas >>
    ELSE [k \in 1..(Len(bands) - 1) |-> {l \in Lambdas : l < bands[k + 1]}]

\* (mutant) a band takes the data on both of its edges
BandSetsClosed(bands) ==
    IF bands = NoBands THEN << Lambdas >>
    ELSE [k \in 1..(Len(bands) - 1) |->
            {l \in Lambdas : bands[k] <= l /\ l <= bands[k + 1]}]

\* the wavelength bins of each band: a band holds what lies at or above its
\* lower edge and below its upper edge
BandSets(bands) ==
    IF bands = NoBands THEN << Lambdas >>
    ELSE [k \in 1..(Len(bands) - 1) |->
            {l \in Lambdas : bands[k] <= l /\ l < bands[k + 1]}]

InQBin(p, l, c, lo, hi) ==
    LET q == NLambda * NLambda * R2(p, c)
        u == l * l * c.w * c.w
    IN lo * u <= q /\ q < hi * u

\* the unmasked cells of a wavelength band that fall into the Q bin [lo, hi)
BinCells(md, band, lo, hi) ==
    {c \in Cells : /\ c[1] \notin md.masked
                   /\ c[2] \in band
                   /\ InQBin(c[1], c[2], md.centre, lo, hi)}

\* direct-beam value (fixed point) that applies at wavelength bin l
BeamAt(d, l) ==
    IF d.edges = <<>> THEN Scale
    ELSE LET ks == {k \in 1..Len(d.vals) : d.edges[k] <= l /\ l < d.edges[k + 1]}
         IN IF ks = {} THEN Scale ELSE d.vals[CHOOSE k \in ks : TRUE]

NaN == [ok |-> FALSE, val |-> 0, var |-> 0]

BroadcastVariance(mode, val, monsum) ==
    IF mode = "upper_bound"
    THEN (val * val * Cardinality(Pixels)) \div monsum
    ELSE 0

\* (mutant) the upper-bound broadcast scales the normalisation term itself,
\* not only its variance
NormalizeBroadcastValues(num, den, monsum, mode) ==
    IF den = 0 THEN NaN
    ELSE LET d == IF mode = "upper_bound" THEN den * Cardinality(Pixels) ELSE den
             val == (num * Scale * Scale) \div d
         IN [ok  |-> TRUE,
             val |-> val,
             var |-> IF num = 0 THEN 0
                     ELSE (val * val) \div num + BroadcastVariance(mode, val, monsum)]

Normalize(num, den, monsum, mode) ==
    IF den = 0 THEN NaN
    ELSE LET val == (num * Scale * Scale) \div den
         IN [ok  |-> TRUE,
             val |-> val,
             var |-> IF num = 0 THEN 0
                     ELSE (val * val) \div num + BroadcastVariance(mode, val, monsum)]

\* the summed counts of a Q bin (numerator) and its summed normalisation
\* (denominator: monitor counts times direct beam; monsum: monitor counts)
BinSums(md, band, lo, hi, beam) ==
    LET cells == BinCells(md, band, lo, hi)
    IN [num |-> SumOver(cells, md.counts),
        den |-> IF \E c \in cells : BeamAt(beam, c[2]) = 0 THEN 0
                ELSE SumOver(cells, [c \in cells |-> md.monitor[c[2]] * BeamAt(beam, c[2])]),
        monsum |-> SumOver(cells, [c \in cells |-> md.monitor[c[2]]])]

IofQBin(md, band, lo, hi, beam, mode) ==
    LET s == BinSums(md, band, lo, hi, beam)
    IN Normalize(s.num, s.den, s.monsum, mode)

IofQ(md, qbins, bands, beam, mode) ==
    LET sets == BandSets(bands)
    IN [ndim |-> IF bands = NoBands THEN 1 ELSE 2,
        rows |-> [b \in 1..Len(sets) |->
                    [k \in 1..(Len(qbins) - 1) |->
                        IofQBin(md, sets[b], qbins[k], qbins[k + 1], beam, mode)]]]

\* (mutant) the operands of the subtraction are swapped
SubtractBinSwapped(s, b) ==
    IF s.ok /\ b.ok
    THEN [ok |-> TRUE, val |-> b.val - s.val, var |-> s.var + b.var]
    ELSE NaN

SubtractBin(s, b) ==
    IF s.ok /\ b.ok
    THEN [ok |-> TRUE, val |-> s.val - b.val, var |-> s.var + b.var]
    ELSE NaN

SubtractBackground(sample, background) ==
    [ndim |-> sample.ndim,
     rows |-> [b \in 1..Len(sample.rows) |->
                 [k \in 1..Len(sample.rows[b]) |->
                     SubtractBin(sample.rows[b][k], background.rows[b][k])]]]

(***************************************************************************)
(* Several runs: with_sample_runs and with_background_runs map the steps   *)
(* of a run role over a series of files, and merge_contributions combines  *)
(* what the runs contribute just before the normalization.                 *)
(***************************************************************************)
Roles == {"SampleRun", "BackgroundRun"}
NoRuns == [r \in Roles |-> <<>>]

\* the summed counts and normalisation terms of one run, per band and Q bin
Contributions(md, sets, qbins, beam) ==
    [b \in 1..Len(sets) |->
        [k \in 1..(Len(qbins) - 1) |->
            BinSums(md, sets[b], qbins[k], qbins[k + 1], beam)]]

\* (mutant) only the detector counts of the runs are merged; the monitor
\* terms are those of the first run
MergeDetectorOnly(parts) ==
    [num |-> SumOver(DOMAIN parts, [i \in DOMAIN parts |-> parts[i].num]),
     den |-> parts[1].den,
     monsum |-> parts[1].monsum]

\* merge_contributions: the detector and the monitor terms of all runs
MergeContributions(parts) ==
    [num |-> SumOver(DOMAIN parts, [i \in DOMAIN parts |-> parts[i].num]),
     den |-> SumOver(DOMAIN parts, [i \in DOMAIN parts |-> parts[i].den]),
     monsum |-> SumOver(DOMAIN parts, [i \in DOMAIN parts |-> parts[i].monsum])]

\* I(Q) of a series of masked runs: the merged contributions, normalized
MergedIofQ(mds, qbins, bands, beam, mode) ==
    LET sets == BandSets(bands)
        per == [i \in DOMAIN mds |-> Contributions(mds[i], sets, qbins, beam)]
    IN [ndim |-> IF bands = NoBands THEN 1 ELSE 2,
        rows |-> [b \in 1..Len(sets) |->
                    [k \in 1..(Len(qbins) - 1) |->
                        LET m == MergeContributions([i \in DOMAIN mds |-> per[i][b][k]])
                        IN Normalize(m.num, m.den, m.monsum, mode)]]]

(***************************************************************************)
(* The provider graph: result identifiers, what each needs, and the order  *)
(* in which a request runs the providers it needs.                         *)
(***************************************************************************)
Nodes ==
    {"DetectorData[SampleRun]", "DetectorData[BackgroundRun]",
     "MaskedData[SampleRun]", "MaskedData[BackgroundRun]",
     "IofQ[SampleRun]", "IofQ[BackgroundRun]", "BackgroundSubtractedIofQ"}

Order ==
    << "DetectorData[SampleRun]", "MaskedData[SampleRun]", "IofQ[SampleRun]",
       "DetectorData[BackgroundRun]", "MaskedData[BackgroundRun]",
       "IofQ[BackgroundRun]", "BackgroundSubtractedIofQ" >>

NodeDeps(n) ==
    CASE n = "MaskedData[SampleRun]" -> {"DetectorData[SampleRun]"}
      [] n = "MaskedData[BackgroundRun]" -> {"DetectorData[BackgroundRun]"}
      [] n = "IofQ[SampleRun]" -> {"MaskedData[SampleRun]"}
      [] n = "IofQ[BackgroundRun]" -> {"MaskedData[BackgroundRun]"}
      [] n = "BackgroundSubtractedIofQ" -> {"IofQ[SampleRun]", "IofQ[BackgroundRun]"}
      [] OTHER -> {}

ParamDeps(n) ==
    CASE n = "DetectorData[SampleRun]" -> {"FilenameSample", "BeamCenter"}
      [] n = "DetectorData[BackgroundRun]" -> {"FilenameBackground", "BeamCenter"}
      [] n \in {"MaskedData[SampleRun]", "MaskedData[BackgroundRun]"} ->
            {"LowCountThreshold"}
      [] n \in {"IofQ[SampleRun]", "IofQ[BackgroundRun]"} ->
            {"QBins", "UncertaintyBroadcastMode", "WavelengthBands", "DirectBeam"}
      [] OTHER -> {}

\* (mutant) every provider of the workflow is part of every request
NeededAll(keys) == Nodes

\* the identifiers the requested results transitively depend on
RECURSIVE Needed(_)
Needed(keys) ==
    LET more == keys \cup UNION {NodeDeps(n) : n \in keys}
    IN IF more = keys THEN keys ELSE Needed(more)

MissingParams(keys, P) ==
    {q \in UNION {ParamDeps(n) : n \in Needed(keys)} : P[q] = {}}

NoValues == [n \in Nodes |-> {}]
NoCalls == [n \in Nodes |-> 0]

\* the result type of an identifier, without its run role
BaseType(n) ==
    CASE n \in {"DetectorData[SampleRun]", "DetectorData[BackgroundRun]"} -> "DetectorData"
      [] n \in {"MaskedData[SampleRun]", "MaskedData[BackgroundRun]"} -> "MaskedData"
      [] n \in {"IofQ[SampleRun]", "IofQ[BackgroundRun]"} -> "IofQ"
      [] OTHER -> n

Position(n) == CHOOSE i \in 1..Len(Order) : Order[i] = n

\* (mutant) values are filed under the result type alone, so a value of the
\* background run overwrites the sample run's
LookupByType(memo, n) ==
    LET same == {m \in Nodes : BaseType(m) = BaseType(n) /\ memo[m] # {}}
        last == CHOOSE m \in same : \A o \in same : Position(o) <= Position(m)
    IN Val(memo[last])

\* the value a provider reads for one of its inputs
Lookup(memo, n) == Val(memo[n])

Failure(e) == [ok |-> FALSE, value |-> {}, err |-> e]
Success(v) == [ok |-> TRUE, value |-> {v}, err |-> "none"]

RunLoad(fileparam, P) ==
    LET f == Val(P[fileparam])
    IN IF f.exists
       THEN Success(LoadDetector(f, Val(P.BeamCenter)))
       ELSE Failure("FileNotFoundError")

RunIofQ(masked, P) ==
    Success(IofQ(masked, Val(P.QBins), Val(P.WavelengthBands),
                 Val(P.DirectBeam), Val(P.UncertaintyBroadcastMode)))

RunProvider(n, memo, P) ==
    CASE n = "DetectorData[SampleRun]" -> RunLoad("FilenameSample", P)
      [] n = "DetectorData[BackgroundRun]" -> RunLoad("FilenameBackground", P)
      [] n = "MaskedData[SampleRun]" ->
            Success(MaskData(Lookup(memo, "DetectorData[SampleRun]"),
                             Val(P.LowCountThreshold)))
      [] n = "MaskedData[BackgroundRun]" ->
            Success(MaskData(Lookup(memo, "DetectorData[BackgroundRun]"),
                             Val(P.LowCountThreshold)))
      [] n = "IofQ[SampleRun]" -> RunIofQ(Lookup(memo, "MaskedData[SampleRun]"), P)
      [] n = "IofQ[BackgroundRun]" ->
            RunIofQ(Lookup(memo, "MaskedData[BackgroundRun]"), P)
      [] n = "BackgroundSubtractedIofQ" ->
            Success(SubtractBackground(Lookup(memo, "IofQ[SampleRun]"),
                                       Lookup(memo, "IofQ[BackgroundRun]")))

\* run the providers of `order` one after the other, stopping at the first
\* one that raises
RECURSIVE RunAll(_, _, _, _)
RunAll(order, memo, count, P) ==
    IF order = <<>> THEN [memo |-> memo, err |-> "none", calls |-> count]
    ELSE LET n == Head(order)
             r == RunProvider(n, memo, P)
             c == [count EXCEPT ![n] = @ + 1]
         IN IF r.ok
            THEN RunAll(Tail(order), [memo EXCEPT ![n] = r.value], c, P)
            ELSE [memo |-> memo, err |-> r.err, calls |-> c]

Returned(memo, keys) == [n \in Nodes |-> IF n \in keys THEN {Lookup(memo, n)} ELSE {}]

\* (mutant) each requested result is resolved on its own, so that what
\* several of them depend on is computed once for each of them
RECURSIVE SchedulePerKey(_, _)
SchedulePerKey(keys, start) ==
    IF keys = {} THEN <<>>
    ELSE LET k == CHOOSE n \in keys : \A m \in keys : Position(n) <= Position(m)
         IN SelectSeq(Order, LAMBDA n : n \in Needed({k}) /\ start[n] = {})
                \o SchedulePerKey(keys \ {k}, start)

\* the providers one request runs: one task for every identifier the
\* requested results need and that has no value yet, dependencies first
Schedule(keys, start) ==
    SelectSeq(Order, LAMBDA n : n \in Needed(keys) /\ start[n] = {})

\* (mutant) the pipeline keeps every value it computed for later requests
CarriedAll(memo) == memo

\* (mutant) the pipeline keeps the loaded files for later requests
CarriedLoads(memo) ==
    [n \in Nodes |-> IF BaseType(n) = "DetectorData" THEN memo[n] ELSE {}]

\* the values a pipeline still holds once a request has returned: none; a
\* later request computes what it needs anew
Carried(memo) == NoValues

\* (mutant) a parameter that was never set silently takes a default value
DefaultParam(q) ==
    CASE q \in {"FilenameSample", "FilenameBackground"} -> File(0, 0, 1, 1, 0)
      [] q = "BeamCenter" -> Centre(0, 0, 1)
      [] q = "QBins" -> <<0, 2, 5>>
      [] q = "UncertaintyBroadcastMode" -> "upper_bound"
      [] q = "WavelengthBands" -> NoBands
      [] q = "DirectBeam" -> FlatBeam
      [] q = "LowCountThreshold" -> 0
      [] q = "DimsToKeep" -> NoDims

ComputeRequestDefaulting(keys, P, start) ==
    LET Q == [q \in ParamNames |-> IF P[q] = {} THEN {DefaultParam(q)} ELSE P[q]]
        run == RunAll(Schedule(keys, start), start, NoCalls, Q)
    IN IF run.err = "none"
       THEN [results |-> Returned(run.memo, keys), err |-> "none",
             calls |-> run.calls, memo |-> run.memo]
       ELSE [results |-> NoValues, err |-> run.err, calls |-> run.calls,
             memo |-> run.memo]

\* (mutant) when a provider raises, the results computed so far are returned
ComputeRequestPartial(keys, P, start) ==
    IF MissingParams(keys, P) # {}
    THEN [results |-> NoValues, err |-> "UnsatisfiedRequirement", calls |-> NoCalls,
          memo |-> start]
    ELSE LET run == RunAll(Schedule(keys, start), start, NoCalls, P)
         IN [results |-> [n \in Nodes |-> IF n \in keys THEN run.memo[n] ELSE {}],
             err |-> run.err, calls |-> run.calls, memo |-> run.memo]

\* Pipeline.compute(keys): the outcome of one request that starts from the
\* values in `start`; memo is what the providers have computed when it ends
ComputeRequest(keys, P, start) ==
    IF MissingParams(keys, P) # {}
    THEN [results |-> NoValues, err |-> "UnsatisfiedRequirement", calls |-> NoCalls,
          memo |-> start]
    ELSE LET run == RunAll(Schedule(keys, start), start, NoCalls, P)
         IN IF run.err = "none"
            THEN [results |-> Returned(run.memo, keys), err |-> "none",
                  calls |-> run.calls, memo |-> run.memo]
            ELSE [results |-> NoValues, err |-> run.err, calls |-> run.calls,
                  memo |-> run.memo]

(***************************************************************************)
(* Beam centre finders.                                                    *)
(***************************************************************************)
RECURSIVE GCD(_, _)
GCD(a, b) == IF b = 0 THEN a ELSE GCD(b, a % b)

\* the same point with the smallest denominator
Reduce(c) ==
    LET g == GCD(GCD(c.sx, c.sy), c.w)
    IN IF g = 0 THEN c ELSE Centre(c.sx \div g, c.sy \div g, c.w \div g)

\* a / b < c / d for a, c >= 0 and b, d > 0, without forming the products
RECURSIVE FracLess(_, _, _, _)
FracLess(a, b, c, d) ==
    IF a \div b # c \div d THEN a \div b < c \div d
    ELSE IF c % d = 0 THEN FALSE
    ELSE IF a % b = 0 THEN TRUE
    ELSE FracLess(d, c % d, b, a % b)

\* (mutant) the masks are not applied to the weights
WeightsUnmasked(md) == [p \in Pixels |-> PixelCounts(md, p)]

\* the weight of a pixel: its counts summed over wavelength, none if masked
Weights(md) ==
    [p \in Pixels |-> IF p \in md.masked THEN 0 ELSE PixelCounts(md, p)]

\* the centre of mass of the pixel positions; w = 0 when nothing has weight
CenterOfMass(md) ==
    LET w == Weights(md)
    IN Reduce(Centre(SumOver(Pixels, [p \in Pixels |-> w[p] * p[1]]),
                     SumOver(Pixels, [p \in Pixels |-> w[p] * p[2]]),
                     SumOver(Pixels, w)))

Quadrants == {"south-west", "south-east", "north-east", "north-west"}

\* (mutant) a pixel on a cut belongs to the quadrants on both sides of it
InQuadrantClosed(p, xy, q) ==
    LET dx == Dx(p, xy)
        dy == Dy(p, xy)
    IN CASE q = "north-east" -> dx >= 0 /\ dy >= 0
         [] q = "north-west" -> dx <= 0 /\ dy >= 0
         [] q = "south-west" -> dx <= 0 /\ dy <= 0
         [] q = "south-east" -> dx >= 0 /\ dy <= 0

\* the side of the vertical and of the horizontal cut through xy that pixel
\* p lies on; a pixel on a cut goes with the quadrant that starts there
\* counter-clockwise
InQuadrant(p, xy, q) ==
    LET dx == Dx(p, xy)
        dy == Dy(p, xy)
    IN CASE q = "north-east" -> (dx > 0 /\ dy >= 0) \/ (dx = 0 /\ dy = 0)
         [] q = "north-west" -> dx <= 0 /\ dy > 0
         [] q = "south-west" -> dx < 0 /\ dy <= 0
         [] q = "south-east" -> dx >= 0 /\ dy < 0

\* (mutant) Q is still computed about the workflow's BeamCenter
QuadrantDataStaleCentre(md, xy, q) ==
    [md EXCEPT !.masked = md.masked \cup {p \in Pixels : ~InQuadrant(p, xy, q)}]

\* the data of one quadrant, with the trial centre applied
QuadrantData(md, xy, q) ==
    [md EXCEPT !.centre = xy,
               !.masked = md.masked \cup {p \in Pixels : ~InQuadrant(p, xy, q)}]

\* _iofq_in_quadrants: I(Q) of each quadrant about the trial centre xy
IofQInQuadrants(xy, md, qbins, beam, mode) ==
    [q \in Quadrants |->
        IofQ(QuadrantData(md, xy, q), qbins, NoBands, beam, mode).rows[1]]

UndefinedCost == [ok |-> FALSE, num |-> 0, den |-> 1]

\* (mutant) the squared differences are not weighted by Ibar
CostUnweighted(xy, md, qbins, beam, mode) ==
    LET iq == IofQInQuadrants(xy, md, qbins, beam, mode)
        K == 1..(Len(qbins) - 1)
        N == Cardinality(Quadrants)
        S == [k \in K |-> SumOver(Quadrants, [q \in Quadrants |-> iq[q][k].val])]
        dev == [k \in K |->
                  SumOver(Quadrants, [q \in Quadrants |->
                      (N * iq[q][k].val - S[k]) * (N * iq[q][k].val - S[k])])]
        num == SumOver(K, dev)
        den == N * SumOver(K, S)
    IN IF (\A q \in Quadrants : \A k \in K : iq[q][k].ok) /\ den # 0
       THEN [ok |-> TRUE, num |-> num, den |-> den]
       ELSE UndefinedCost

\* _cost: sum_Q sum_i Ibar (I_i - Ibar)^2 / sum_Q Ibar as the fraction num/den,
\* with S = 4 Ibar the sum of the four quadrants; undefined (NaN) when a
\* quadrant's I(Q) is undefined in some bin or the denominator is zero
Cost(xy, md, qbins, beam, mode) ==
    LET iq == IofQInQuadrants(xy, md, qbins, beam, mode)
        K == 1..(Len(qbins) - 1)
        N == Cardinality(Quadrants)
        S == [k \in K |-> SumOver(Quadrants, [q \in Quadrants |-> iq[q][k].val])]
        dev == [k \in K |->
                  SumOver(Quadrants, [q \in Quadrants |->
                      (N * iq[q][k].val - S[k]) * (N * iq[q][k].val - S[k])])]
        num == SumOver(K, [k \in K |-> S[k] * dev[k]])
        den == N * N * SumOver(K, S)
    IN IF (\A q \in Quadrants : \A k \in K : iq[q][k].ok) /\ den # 0
       THEN [ok |-> TRUE, num |-> num, den |-> den]
       ELSE UndefinedCost

\* a < b as the minimizer compares costs: false when either is undefined
CostLess(a, b) == a.ok /\ b.ok /\ FracLess(a.num, a.den, b.num, b.den)

\* the bounds of the search: the extent of the pixel positions
XMin == 0
XMax == PanelMax
YMin == 0
YMax == PanelMax

InBounds(c) ==
    /\ c.w > 0
    /\ XMin * c.w <= c.sx /\ c.sx <= XMax * c.w
    /\ YMin * c.w <= c.sy /\ c.sy <= YMax * c.w

(***************************************************************************)
(* Direct-beam iterations.  Direct-beam values and factors are in units    *)
(* of 1/Scale; 0 stands for an undefined value.                            *)
(***************************************************************************)
\* (mutant) the flat direct beam has one value per band edge
FlatDirectBeamPerEdge(bands) ==
    [edges |-> bands, vals |-> [k \in 1..Len(bands) |-> Scale]]

\* the flat direct beam function on the wavelength bands
FlatDirectBeam(bands) ==
    [edges |-> bands, vals |-> [k \in 1..(Len(bands) - 1) |-> Scale]]

\* the single band that contains all wavelengths
FullRange(bands) == << bands[1], bands[Len(bands)] >>

\* the Q bins in which both curves are defined and positive
ValidBins(band, full) ==
    {k \in 1..Len(full) : band[k].ok /\ full[k].ok /\ band[k].val > 0 /\ full[k].val > 0}

\* (mutant) the ratios are summed over Q instead of averaged
BandFactorSummed(band, full) ==
    LET K == ValidBins(band, full)
    IN IF K = {} THEN 0
       ELSE SumOver(K, [k \in K |-> (band[k].val * Scale) \div full[k].val])

\* (mutant) the ratio is taken the other way round: full range over band
BandFactorInverse(band, full) ==
    LET K == ValidBins(band, full)
    IN IF K = {} THEN 0
       ELSE SumOver(K, [k \in K |-> (full[k].val * Scale) \div band[k].val])
                \div Cardinality(K)

\* the factor of one band: the ratio of the band's I(Q) to the full-range
\* I(Q), averaged over Q; multiplying the band's direct-beam values by it
\* brings the band's I(Q) onto the full-range curve
BandFactor(band, full) ==
    LET K == ValidBins(band, full)
    IN IF K = {} THEN 0
       ELSE SumOver(K, [k \in K |-> (band[k].val * Scale) \div full[k].val])
                \div Cardinality(K)

\* (mutant) the full-range I(Q) is read at the highest Q
GlobalFactorHighestQ(full, I0) ==
    IF full[Len(full)].ok THEN (full[Len(full)].val * Scale) \div I0 ELSE 0

\* the additional scaling from the full-range I(Q) at the lowest Q and the
\* reference I0
GlobalFactor(full, I0) ==
    IF full[1].ok THEN (full[1].val * Scale) \div I0 ELSE 0

\* (mutant) every band's factor is applied to the whole direct beam
RescaleWholeArray(beam, f, g) ==
    LET RECURSIVE Through(_, _)
        Through(v, b) ==
            IF b > Len(f) THEN v ELSE Through((v * f[b]) \div Scale, b + 1)
    IN [beam EXCEPT !.vals =
            [b \in 1..Len(beam.vals) |-> (Through(beam.vals[b], 1) * g) \div Scale]]

\* the direct beam with the values inside each wavelength band multiplied
\* by the band's factor f[b], and all of them by the additional scaling g
Rescale(beam, f, g) ==
    [beam EXCEPT !.vals =
        [b \in 1..Len(beam.vals) |->
            (((beam.vals[b] * f[b]) \div Scale) * g) \div Scale]]

\* the layers of detector tubes, and the layer a pixel belongs to
Layers == {<< "layer", y >> : y \in 1..NLayers}
LayerOf(p) == << "layer", (p[1] % NLayers) + 1 >>

\* the data of one layer
LayerData(md, y) ==
    [md EXCEPT !.masked = md.masked \cup {p \in Pixels : LayerOf(p) # y}]

\* the flat direct beam function, with the dimensions that are kept
FlatDirectBeamKeeping(dims, bands) ==
    IF dims = NoDims THEN FlatDirectBeam(bands)
    ELSE [edges |-> bands, vals |-> [y \in Layers |-> FlatDirectBeam(bands).vals]]

\* (mutant) the I(Q) are computed with the flat direct beam in every
\* iteration, not with the direct beam the previous iteration left
DirectBeamIterationFromFlat(md, qbins, bands, mode, I0, beam) ==
    LET flat == FlatDirectBeam(bands)
        full == IofQ(md, qbins, FullRange(bands), flat, mode).rows[1]
        inbands == IofQ(md, qbins, bands, flat, mode).rows
    IN [iofq_full |-> full,
        iofq_bands |-> inbands,
        direct_beam |->
            Rescale(beam, [b \in 1..Len(inbands) |-> BandFactor(inbands[b], full)],
                    GlobalFactor(full, I0))]

\* one iteration: I(Q) for the full range and for the bands with the
\* current direct beam, then the direct beam rescaled band by band
DirectBeamIteration(md, qbins, bands, mode, I0, beam) ==
    LET full == IofQ(md, qbins, FullRange(bands), beam, mode).rows[1]
        inbands == IofQ(md, qbins, bands, beam, mode).rows
    IN [iofq_full |-> full,
        iofq_bands |-> inbands,
        direct_beam |->
            Rescale(beam, [b \in 1..Len(inbands) |-> BandFactor(inbands[b], full)],
                    GlobalFactor(full, I0))]

\* one iteration on a workflow that keeps the dimensions dims: with 'layer'
\* kept, I(Q) and the direct beam are computed for each layer from the data
\* of that layer
DirectBeamIterationKeeping(dims, md, qbins, bands, mode, I0, beam) ==
    IF dims = NoDims THEN DirectBeamIteration(md, qbins, bands, mode, I0, beam)
    ELSE LET per == [y \in Layers |->
                        DirectBeamIteration(LayerData(md, y), qbins, bands, mode, I0,
                                            [edges |-> beam.edges, vals |-> beam.vals[y]])]
         IN [iofq_full |-> [y \in Layers |-> per[y].iofq_full],
             iofq_bands |-> [y \in Layers |-> per[y].iofq_bands],
             direct_beam |-> [edges |-> beam.edges,
                              vals |-> [y \in Layers |-> per[y].direct_beam.vals]]]

\* (mutant) the loop also ends once the direct beam has stopped changing
LoopDoneOnConvergence(it, n, res) ==
    \/ it = n
    \/ Len(res) >= 2 /\ res[Len(res)].direct_beam = res[Len(res) - 1].direct_beam

\* for it in range(niter): the loop ends after niter passes
LoopDone(it, n, res) == it = n

(***************************************************************************)
(* State.                                                                  *)
(*   params   the workflow's parameters                                    *)
(*   request  the identifiers of the latest compute request                *)
(*   results  what that request returned, error  what it raised            *)
(*   calls    how often each provider ran during that request              *)
(*   seen     per identifier, the first value returned for it since the    *)
(*            latest parameter assignment; repeat  the identifiers of      *)
(*            the latest request that had been returned before             *)
(*   byMode   per uncertainty mode, the results of the latest successful   *)
(*            request since a parameter other than the mode was assigned   *)
(*   held     the computed values the pipeline holds between requests      *)
(*   runs     per run role, the series of files with_sample_runs or        *)
(*            with_background_runs mapped the workflow over (none: <<>>)   *)
(* State of a beam centre search on the workflow:                          *)
(*   bcPc     where the notebook is: "idle", "com" (the centre of mass     *)
(*            was computed), "searching" (inside beam_center_from_iofq),   *)
(*            "done" (it returned)                                         *)
(*   com      the value beam_center_from_center_of_mass returned           *)
(*   qarg     the q_bins passed to beam_center_from_iofq                   *)
(*   first, trial  the first and the latest trial centre the cost was      *)
(*            evaluated at; evals  the number of cost evaluations          *)
(*   best, bestCost  the minimizer's best centre so far and its cost       *)
(*   dir, stale  the direction of the next line search and the number of   *)
(*            searches in a row that did not improve the cost              *)
(*   found    the value beam_center_from_iofq returned                     *)
(* State of a call of sans.direct_beam(workflow, I0, niter):               *)
(*   dbPc     "idle", "running" (inside the call), "done" (it returned)    *)
(*   i0, niter  the arguments; iter  the number of iterations completed    *)
(*   db       the current direct beam function                             *)
(*   dbResults  the list of results built so far; returned  the list the   *)
(*            call returned                                                *)
(***************************************************************************)
VARIABLES params, request, results, error, calls, seen, repeat, byMode, held, runs,
          bcPc, com, qarg, first, trial, evals, best, bestCost, dir, stale, found,
          dbPc, i0, niter, iter, db, dbResults, returned

pipeVars == << params, request, results, error, calls, seen, repeat, byMode, held, runs >>
bcVars == << bcPc, com, qarg, first, trial, evals, best, bestCost, dir, stale, found >>
dbVars == << dbPc, i0, niter, iter, db, dbResults, returned >>
vars == << pipeVars, bcVars, dbVars >>

Modes == {"upper_bound", "drop"}
MidPixel == PanelMax \div 2
FullBands == [k \in 1..(NLambda + 1) |-> k]

\* the values the notebooks' configuration cells assign
Offers ==
    [FilenameSample |-> {File(MidPixel * Grid, MidPixel * Grid, 3, 1, 1), MissingFile},
     FilenameBackground |-> {File(MidPixel * Grid, MidPixel * Grid, 0, 2, 1), MissingFile},
     BeamCenter |-> {Centre(0, 0, 1), Centre(MidPixel, MidPixel, 1)},
     QBins |-> {<<0, 2, 5>>, <<1, 3, 6, 10>>},
     UncertaintyBroadcastMode |-> Modes,
     WavelengthBands |-> {NoBands, FullBands},
     DirectBeam |-> {FlatBeam},
     LowCountThreshold |-> {5},
     DimsToKeep |-> {NoDims}]

Requests ==
    {{"IofQ[SampleRun]"}, {"BackgroundSubtractedIofQ"},
     {"IofQ[SampleRun]", "IofQ[BackgroundRun]", "BackgroundSubtractedIofQ"}}

NoModeResults == [m \in Modes |-> NoValues]

\* the workflow as constructed: only WavelengthBands (None) and DimsToKeep
\* (no dimension) have defaults
InitParams ==
    [q \in ParamNames |->
        CASE q = "WavelengthBands" -> {NoBands}
          [] q = "DimsToKeep" -> {NoDims}
          [] OTHER -> {}]

\* no request was made yet, on a workflow that was not mapped over runs
NoRequest ==
    /\ request = {}
    /\ results = NoValues
    /\ error = "none"
    /\ calls = NoCalls
    /\ seen = NoValues
    /\ repeat = {}
    /\ byMode = NoModeResults
    /\ held = NoValues
    /\ runs = NoRuns

\* no beam centre finder was called yet
NoSearch ==
    /\ bcPc = "idle"
    /\ com = {}
    /\ qarg = <<>>
    /\ first = {}
    /\ trial = {}
    /\ evals = 0
    /\ best = {}
    /\ bestCost = UndefinedCost
    /\ dir = "x"
    /\ stale = 0
    /\ found = {}

\* sans.direct_beam was not called yet
NoIterations ==
    /\ dbPc = "idle"
    /\ i0 = 0
    /\ niter = 0
    /\ iter = 0
    /\ db = FlatBeam
    /\ dbResults = <<>>
    /\ returned = <<>>

Init ==
    /\ params = InitParams
    /\ NoRequest
    /\ NoSearch
    /\ NoIterations

\* workflow[name] = v
SetParam(name, v) ==
    /\ params[name] # {v}
    /\ params' = [params EXCEPT ![name] = {v}]
    /\ request' = {}
    /\ results' = NoValues
    /\ error' = "none"
    /\ calls' = NoCalls
    /\ seen' = NoValues
    /\ repeat' = {}
    /\ byMode' = IF name = "UncertaintyBroadcastMode" THEN byMode ELSE NoModeResults
    /\ UNCHANGED << held, runs, bcVars, dbVars >>

\* workflow.compute(keys)
Compute(keys) ==
    \E out \in {ComputeRequest(keys, params, held)} :
       /\ request' = keys
       /\ results' = out.results
       /\ error' = out.err
       /\ calls' = out.calls
       /\ seen' = [n \in Nodes |-> IF seen[n] # {} THEN seen[n] ELSE out.results[n]]
       /\ repeat' = {n \in keys : seen[n] # {} /\ out.err = "none"}
       /\ byMode' = [m \in Modes |->
                        IF out.err = "none" /\ params.UncertaintyBroadcastMode = {m}
                        THEN out.results
                        ELSE byMode[m]]
       /\ held' = Carried(out.memo)
       /\ UNCHANGED << params, runs, bcVars, dbVars >>

Next ==
    \/ \E name \in ParamNames : \E v \in Offers[name] : SetParam(name, v)
    \/ \E keys \in Requests : Compute(keys)

Spec == Init /\ [][Next]_vars

(***************************************************************************)
(* The workflow mapped over several runs.                                  *)
(***************************************************************************)
FileParam(r) == IF r = "SampleRun" THEN "FilenameSample" ELSE "FilenameBackground"
DetectorNode(r) ==
    IF r = "SampleRun" THEN "DetectorData[SampleRun]" ELSE "DetectorData[BackgroundRun]"
MaskedNode(r) ==
    IF r = "SampleRun" THEN "MaskedData[SampleRun]" ELSE "MaskedData[BackgroundRun]"
IofQNode(r) == IF r = "SampleRun" THEN "IofQ[SampleRun]" ELSE "IofQ[BackgroundRun]"

\* the files of a run role: the series the workflow was mapped over, or the
\* one file of the Filename parameter
RunFiles(r, P, R) == IF R[r] = <<>> THEN << Val(P[FileParam(r)]) >> ELSE R[r]

RolesNeeded(keys) == {r \in Roles : IofQNode(r) \in Needed(keys)}

\* a Filename parameter is not needed once its role is mapped over a series
MissingParamsMapped(keys, P, R) ==
    {q \in MissingParams(keys, P) : \A r \in Roles : q = FileParam(r) => R[r] = <<>>}

\* the steps of one run role: every run is loaded and masked on its own,
\* the contributions are merged and the merged contributions normalized
RoleRun(r, P, R) ==
    LET files == RunFiles(r, P, R)
        bad == {i \in DOMAIN files : ~files[i].exists}
        dets == [i \in DOMAIN files |-> LoadDetector(files[i], Val(P.BeamCenter))]
        mds == [i \in DOMAIN files |-> MaskData(dets[i], Val(P.LowCountThreshold))]
    IN IF bad # {}
       THEN [ok |-> FALSE, loads |-> CHOOSE i \in bad : \A j \in bad : i <= j,
             masks |-> 0, dets |-> <<>>, mds |-> <<>>, iofq |-> {}]
       ELSE [ok |-> TRUE, loads |-> Len(files), masks |-> Len(files),
             dets |-> dets, mds |-> mds,
             iofq |-> {MergedIofQ(mds, Val(P.QBins), Val(P.WavelengthBands),
                                  Val(P.DirectBeam),
                                  Val(P.UncertaintyBroadcastMode))}]

\* Pipeline.compute(keys) on a workflow mapped over the run series R
ComputeMapped(keys, P, R) ==
    IF MissingParamsMapped(keys, P, R) # {}
    THEN [results |-> NoValues, err |-> "UnsatisfiedRequirement", calls |-> NoCalls]
    ELSE LET need == RolesNeeded(keys)
             run == [r \in Roles |-> RoleRun(r, P, R)]
             ran == {r \in need : r = "SampleRun" \/ "SampleRun" \notin need
                                                 \/ run["SampleRun"].ok}
             failed == \E r \in ran : ~run[r].ok
             subtract == ~failed /\ "BackgroundSubtractedIofQ" \in Needed(keys)
             value == [n \in Nodes |->
                        CASE \E r \in ran : n = DetectorNode(r) ->
                                run[CHOOSE r \in ran : n = DetectorNode(r)].dets
                          [] \E r \in ran : n = MaskedNode(r) ->
                                run[CHOOSE r \in ran : n = MaskedNode(r)].mds
                          [] \E r \in ran : n = IofQNode(r) ->
                                Val(run[CHOOSE r \in ran : n = IofQNode(r)].iofq)
                          [] n = "BackgroundSubtractedIofQ" /\ subtract ->
                                SubtractBackground(Val(run["SampleRun"].iofq),
                                                   Val(run["BackgroundRun"].iofq))
                          [] OTHER -> <<>>]
         IN [results |-> IF failed THEN NoValues
                         ELSE [n \in Nodes |-> IF n \in keys THEN {value[n]} ELSE {}],
             err |-> IF failed THEN "FileNotFoundError" ELSE "none",
             calls |-> [n \in Nodes |->
                          CASE \E r \in ran : n = DetectorNode(r) ->
                                  run[CHOOSE r \in ran : n = DetectorNode(r)].loads
                            [] \E r \in ran : n = MaskedNode(r) ->
                                  run[CHOOSE r \in ran : n = MaskedNode(r)].masks
                            [] \E r \in ran : n = IofQNode(r) ->
                                  IF run[CHOOSE r \in ran : n = IofQNode(r)].ok
                                  THEN 1 ELSE 0
                            [] n = "BackgroundSubtractedIofQ" /\ subtract -> 1
                            [] OTHER -> 0]]

SampleRuns ==
    {<< File(MidPixel * Grid, MidPixel * Grid, 3, 1, 1),
        File(MidPixel * Grid, MidPixel * Grid, 2, 0, 0) >>,
     << File(MidPixel * Grid, MidPixel * Grid, 2, 0, 0) >>,
     << File(MidPixel * Grid, MidPixel * Grid, 3, 1, 1), MissingFile >>}
BackgroundRuns ==
    {<< File(MidPixel * Grid, MidPixel * Grid, 0, 2, 1),
        File(MidPixel * Grid, MidPixel * Grid, 0, 1, 0) >>,
     << File(MidPixel * Grid, MidPixel * Grid, 0, 1, 0),
        File(MidPixel * Grid, MidPixel * Grid, 0, 1, 0) >>}

RunSeries == [r \in Roles |-> IF r = "SampleRun" THEN SampleRuns ELSE BackgroundRuns]

RunsWorkflow(th, m) ==
    [InitParams EXCEPT !.FilenameSample = {File(MidPixel * Grid, MidPixel * Grid, 3, 1, 1)},
                       !.FilenameBackground =
                            {File(MidPixel * Grid, MidPixel * Grid, 0, 2, 1)},
                       !.BeamCenter = {Centre(MidPixel, MidPixel, 1)},
                       !.QBins = {<<0, 2, 5>>},
                       !.LowCountThreshold = {th},
                       !.UncertaintyBroadcastMode = {m},
                       !.DirectBeam = {FlatBeam}]

InitRuns ==
    /\ params \in {RunsWorkflow(th, m) : th \in {0, 5}, m \in Modes}
    /\ NoRequest
    /\ NoSearch
    /\ NoIterations

\* workflow = sans.with_sample_runs(workflow, runs=rs), and
\* workflow = sans.with_background_runs(workflow, runs=rs)
WithRuns(r, rs) ==
    /\ runs[r] # rs
    /\ runs' = [runs EXCEPT ![r] = rs]
    /\ request' = {}
    /\ results' = NoValues
    /\ error' = "none"
    /\ calls' = NoCalls
    /\ seen' = NoValues
    /\ repeat' = {}
    /\ byMode' = NoModeResults
    /\ UNCHANGED << params, held, bcVars, dbVars >>

\* workflow.compute(keys) on the mapped workflow
ComputeRuns(keys) ==
    \E out \in {ComputeMapped(keys, params, runs)} :
       /\ request' = keys
       /\ results' = out.results
       /\ error' = out.err
       /\ calls' = out.calls
       /\ seen' = [n \in Nodes |-> IF seen[n] # {} THEN seen[n] ELSE out.results[n]]
       /\ repeat' = {n \in keys : seen[n] # {} /\ out.err = "none"}
       /\ byMode' = [m \in Modes |->
                        IF out.err = "none" /\ params.UncertaintyBroadcastMode = {m}
                        THEN out.results
                        ELSE byMode[m]]
       /\ held' = NoValues
       /\ UNCHANGED << params, runs, bcVars, dbVars >>

NextRuns ==
    \/ \E r \in Roles : \E rs \in RunSeries[r] : WithRuns(r, rs)
    \/ \E keys \in Requests : ComputeRuns(keys)

SpecRuns == InitRuns /\ [][NextRuns]_vars

(***************************************************************************)
(* The beam centre finders, called on a configured workflow.               *)
(***************************************************************************)
MaxEvals == 4
Steps == {-1, 1}

\* MaskedData[SampleRun] as the finders compute it from the workflow; the
\* positions are taken about the origin when BeamCenter is not set
MaskedSample(P) ==
    MaskData(LoadDetector(Val(P.FilenameSample),
                          IF P.BeamCenter = {} THEN Centre(0, 0, 1) ELSE Val(P.BeamCenter)),
             Val(P.LowCountThreshold))

\* a step of k / Grid from c along direction d
Move(c, d, k) ==
    Centre(c.sx * Grid + (IF d = "x" THEN k * c.w ELSE 0),
           c.sy * Grid + (IF d = "y" THEN k * c.w ELSE 0),
           c.w * Grid)

\* (mutant) the bounds are not passed to the minimizer
NoClip(c) == c

\* the minimizer keeps its trial points within the bounds
Clip(c) ==
    Centre(IF c.sx < XMin * c.w THEN XMin * c.w
           ELSE IF c.sx > XMax * c.w THEN XMax * c.w ELSE c.sx,
           IF c.sy < YMin * c.w THEN YMin * c.w
           ELSE IF c.sy > YMax * c.w THEN YMax * c.w ELSE c.sy,
           c.w)

TrialPoint(c, d, k) == Reduce(Clip(Move(c, d, k)))

CostAt(xy, P, qbins) ==
    Cost(xy, MaskedSample(P), qbins, Val(P.DirectBeam), Val(P.UncertaintyBroadcastMode))

BCFiles ==
    {File((PanelMax * Grid) \div 2, (PanelMax * Grid) \div 2, 3, 1, 1),
     File(1, 2 * Grid, 3, 1, 1),
     File(Grid, Grid, 3, 1, 1),
     File(0, 0, 3, 1, 1)}
BCThresholds == {0, 5}
BCQBins == {<<0, 2, 5>>, <<1, 3>>}

\* BeamCenter as the notebooks have it before a finder is called: not set
\* yet, or set to the origin
BCCentres == {{}, {Centre(0, 0, 1)}}

BCWorkflow(f, th, b) ==
    [InitParams EXCEPT !.FilenameSample = {f},
                       !.BeamCenter = b,
                       !.LowCountThreshold = {th},
                       !.UncertaintyBroadcastMode = {"upper_bound"},
                       !.DirectBeam = {FlatBeam}]

InitBC ==
    /\ params \in {BCWorkflow(f, th, b) : f \in BCFiles, th \in BCThresholds,
                                            b \in BCCentres}
    /\ NoRequest
    /\ NoSearch
    /\ NoIterations

\* (mutant) the finder stores the centre it found in the workflow it was given
CallerWorkflowUpdated(P, c) == [P EXCEPT !.BeamCenter = {c}]

\* the workflow passed to a finder, once the finder has returned the centre
\* c: the finder only returns c, and it is for the caller to assign it
CallerWorkflow(P, c) == P

\* com = sans.beam_center_from_center_of_mass(workflow)
CallCenterOfMass ==
    /\ bcPc = "idle"
    /\ \E c \in {CenterOfMass(MaskedSample(params))} :
          /\ com' = {c}
          /\ params' = CallerWorkflow(params, c)
    /\ bcPc' = "com"
    /\ UNCHANGED << request, results, error, calls, seen, repeat, byMode, held, runs >>
    /\ UNCHANGED << dbVars, qarg, first, trial, evals, best, bestCost, dir, stale, found >>

\* workflow[BeamCenter] = com
AssignBeamCenter ==
    /\ bcPc = "com"
    /\ params.BeamCenter # com
    /\ params' = [params EXCEPT !.BeamCenter = com]
    /\ UNCHANGED << request, results, error, calls, seen, repeat, byMode, held, runs, bcVars, dbVars >>

\* (mutant) the minimizer starts from the workflow's BeamCenter
StartingPointFromWorkflow(P) ==
    IF P.BeamCenter = {} THEN Centre(0, 0, 1) ELSE Val(P.BeamCenter)

\* the initial guess of the minimizer: the centre of mass (method 1)
StartingPoint(P) == CenterOfMass(MaskedSample(P))

\* sans.beam_center_from_iofq(workflow=workflow, q_bins=q): the centre of
\* mass is the minimizer's starting point, where the cost is evaluated first
StartIofQ(q) ==
    /\ bcPc \in {"idle", "com"}
    /\ \E x0 \in {StartingPoint(params)} :
          /\ first' = {x0}
          /\ trial' = {x0}
          /\ best' = {x0}
          /\ bestCost' = CostAt(x0, params, q)
    /\ qarg' = q
    /\ evals' = 1
    /\ dir' = "x"
    /\ stale' = 0
    /\ bcPc' = "searching"
    /\ UNCHANGED << pipeVars, dbVars, com, found >>

\* (mutant) the minimizer stops on the tolerance only
SearchDoneOnToleranceOnly(n, s) == s >= 2

\* minimize(..., tol=0.01) stops when the tolerance is met (neither
\* direction improved the cost) or at its cap on evaluations
SearchDone(n, s) == n >= MaxEvals \/ s >= 2

\* one line search of the minimizer: the cost is evaluated at a point of
\* the line through the best centre, within the bounds
Trial(k) ==
    /\ bcPc = "searching"
    /\ ~SearchDone(evals, stale)
    /\ \E t \in {TrialPoint(Val(best), dir, k)} :
       \E ct \in {CostAt(t, params, qarg)} :
          /\ trial' = {t}
          /\ IF CostLess(ct, bestCost)
             THEN best' = {t} /\ bestCost' = ct /\ stale' = 0
             ELSE UNCHANGED << best, bestCost >> /\ stale' = stale + 1
    /\ evals' = evals + 1
    /\ dir' = IF dir = "x" THEN "y" ELSE "x"
    /\ UNCHANGED << pipeVars, dbVars, bcPc, com, qarg, first, found >>

\* the minimizer stops when neither direction improved the cost (the
\* tolerance is met) or at the evaluation cap, and its best centre is returned
Finish ==
    /\ bcPc = "searching"
    /\ SearchDone(evals, stale)
    /\ found' = best
    /\ params' = CallerWorkflow(params, Val(best))
    /\ bcPc' = "done"
    /\ UNCHANGED << request, results, error, calls, seen, repeat, byMode, held, runs >>
    /\ UNCHANGED << dbVars, com, qarg, first, trial, evals, best, bestCost, dir, stale >>

NextBC ==
    \/ CallCenterOfMass
    \/ AssignBeamCenter
    \/ \E q \in BCQBins : StartIofQ(q)
    \/ \E k \in Steps : Trial(k)
    \/ Finish

SpecBC == InitBC /\ [][NextBC]_vars

\* the minimizer evaluates the cost again as long as it is not done
AdvanceSearch ==
    bcPc = "searching" /\ ~SearchDone(evals, stale) /\ evals' = evals + 1

\* a search that was started keeps running: the minimizer goes on and, once
\* it is done, the finder returns
SpecBCLive == SpecBC /\ WF_evals(AdvanceSearch) /\ WF_vars(Finish)

(***************************************************************************)
(* sans.direct_beam, called on a workflow configured with wavelength bands.*)
(***************************************************************************)
MaxIter == 3

DBFiles ==
    {File(MidPixel * Grid, MidPixel * Grid, 0, 1, 0),
     File(MidPixel * Grid, MidPixel * Grid, 0, 1, 1),
     File(MidPixel * Grid, MidPixel * Grid, 3, 1, 1)}
DBQBins == {<<0, 2, 5>>, <<0, 1, 10>>}
DBReferences == {Scale, 2 * Scale}

DBWorkflow(f, q) ==
    [InitParams EXCEPT !.FilenameSample = {f},
                       !.BeamCenter = {Centre(MidPixel, MidPixel, 1)},
                       !.QBins = {q},
                       !.LowCountThreshold = {0},
                       !.UncertaintyBroadcastMode = {"upper_bound"},
                       !.WavelengthBands = {FullBands}]

InitDB ==
    /\ params \in {DBWorkflow(f, q) : f \in DBFiles, q \in DBQBins}
    /\ NoRequest
    /\ NoSearch
    /\ NoIterations

\* results = sans.direct_beam(workflow=workflow, I0=I0, niter=n): the call
\* starts from a flat direct beam on the wavelength bands
StartDirectBeam(I0, n) ==
    /\ dbPc = "idle"
    /\ i0' = I0
    /\ niter' = n
    /\ iter' = 0
    /\ db' = FlatDirectBeamKeeping(Val(params.DimsToKeep), Val(params.WavelengthBands))
    /\ dbResults' = <<>>
    /\ dbPc' = "running"
    /\ UNCHANGED << pipeVars, bcVars, returned >>

\* (mutant) the iterations assign the direct beam in the caller's workflow
WorkflowIteratedInPlace(P, beam) == [P EXCEPT !.DirectBeam = {beam}]

\* the caller's workflow after an iteration that found `beam`: the
\* iterations work on copies of the workflow
WorkflowOfCaller(P, beam) == P

\* one pass of the loop
Iterate ==
    /\ dbPc = "running"
    /\ ~LoopDone(iter, niter, dbResults)
    /\ \E r \in {DirectBeamIterationKeeping(Val(params.DimsToKeep),
                                            MaskedSample(params), Val(params.QBins),
                                            Val(params.WavelengthBands),
                                            Val(params.UncertaintyBroadcastMode),
                                            i0, db)} :
          /\ db' = r.direct_beam
          /\ dbResults' = Append(dbResults, r)
          /\ params' = WorkflowOfCaller(params, r.direct_beam)
    /\ iter' = iter + 1
    /\ UNCHANGED << request, results, error, calls, seen, repeat, byMode, held, runs >>
    /\ UNCHANGED << bcVars, dbPc, i0, niter, returned >>

\* the list of results is returned
Return ==
    /\ dbPc = "running"
    /\ LoopDone(iter, niter, dbResults)
    /\ returned' = dbResults
    /\ dbPc' = "done"
    /\ UNCHANGED << pipeVars, bcVars, i0, niter, iter, db, dbResults >>

NextDB ==
    \/ \E I0 \in DBReferences : \E n \in 1..MaxIter : StartDirectBeam(I0, n)
    \/ Iterate
    \/ Return

SpecDB == InitDB /\ [][NextDB]_vars

\* sans.direct_beam on either workflow of the notebook: all pixels combined,
\* or with the 'layer' dimension kept; with one band per wavelength bin or
\* one band for all wavelengths
DBBands == {FullBands, << 1, NLambda + 1 >>}

InitDBLayers ==
    /\ params \in {[DBWorkflow(f, q) EXCEPT !.DimsToKeep = {d}, !.WavelengthBands = {b}] :
                      f \in DBFiles, q \in DBQBins, d \in {NoDims, KeepLayer},
                      b \in DBBands}
    /\ NoRequest
    /\ NoSearch
    /\ NoIterations

SpecDBLayers == InitDBLayers /\ [][NextDB]_vars

\* workflow[DimsToKeep] = d, once a call of sans.direct_beam has returned;
\* sans.direct_beam can then be called again
AssignDimsToKeep(d) ==
    /\ dbPc = "done"
    /\ params.DimsToKeep # {d}
    /\ params' = [params EXCEPT !.DimsToKeep = {d}]
    /\ dbPc' = "idle"
    /\ UNCHANGED << request, results, error, calls, seen, repeat, byMode, held, runs >>
    /\ UNCHANGED << bcVars, i0, niter, iter, db, dbResults, returned >>

NextDBAgain ==
    \/ NextDB
    \/ \E d \in {NoDims, KeepLayer} : AssignDimsToKeep(d)

\* calls of sans.direct_beam one after the other on the same workflow
SpecDBAgain == InitDBLayers /\ [][NextDBAgain]_vars

\* the loop advances as long as it is not done
Advance == dbPc = "running" /\ ~LoopDone(iter, niter, dbResults) /\ iter' = iter + 1

\* a call that was started keeps running: the loop advances and, once the
\* loop is done, the call returns
SpecDBLive == SpecDB /\ WF_iter(Advance) /\ WF_vars(Return)

(***************************************************************************)
(* Properties of the pipeline.                                          *)
(***************************************************************************)
SampleKey == "IofQ[SampleRun]"
BackgroundKey == "IofQ[BackgroundRun]"
SubtractedKey == "BackgroundSubtractedIofQ"
IofQKeys == {SampleKey, BackgroundKey, SubtractedKey}

BinsOf(a) == {<<b, k>> : b \in 1..Len(a.rows), k \in 1..Len(a.rows[1])}

\* C1: in every Q bin (of every band) the background-subtracted I(Q) the
\* pipeline returns is the I(Q) it returns for the sample run minus the I(Q)
\* it returns for the background run under the same parameters (same QBins);
\* a bin undefined in either is undefined in the difference.
C1_BackgroundSubtractedIsDifference ==
    (seen[SampleKey] # {} /\ seen[BackgroundKey] # {} /\ seen[SubtractedKey] # {}) =>
        LET s == Val(seen[SampleKey])
            b == Val(seen[BackgroundKey])
            d == Val(seen[SubtractedKey])
        IN /\ Len(d.rows) = Len(s.rows)
           /\ Len(d.rows) = Len(b.rows)
           /\ \A r \in 1..Len(d.rows) :
                /\ Len(d.rows[r]) = Len(Val(params.QBins)) - 1
                /\ \A k \in 1..Len(d.rows[r]) :
                     /\ d.rows[r][k].ok = (s.rows[r][k].ok /\ b.rows[r][k].ok)
                     /\ d.rows[r][k].ok =>
                            d.rows[r][k].val = s.rows[r][k].val - b.rows[r][k].val

\* C1 witness: all three were returned, with a bin where sample and
\* background differ and both are non-zero
C1_Witness ==
    /\ seen[SampleKey] # {} /\ seen[BackgroundKey] # {} /\ seen[SubtractedKey] # {}
    /\ \E c \in BinsOf(Val(seen[SubtractedKey])) :
          LET d == Val(seen[SubtractedKey]).rows[c[1]][c[2]]
              b == Val(seen[BackgroundKey]).rows[c[1]][c[2]]
          IN d.ok /\ d.val # 0 /\ b.val # 0

SameValues(a, b) ==
    /\ a.ndim = b.ndim
    /\ Len(a.rows) = Len(b.rows)
    /\ \A r \in 1..Len(a.rows) :
         /\ Len(a.rows[r]) = Len(b.rows[r])
         /\ \A k \in 1..Len(a.rows[r]) :
              /\ a.rows[r][k].ok = b.rows[r][k].ok
              /\ a.rows[r][k].val = b.rows[r][k].val

\* C2: results computed with upper_bound and with drop, all other parameters
\* being the same, have the same central value in every Q bin
C2_ModeKeepsCentralValues ==
    \A n \in IofQKeys :
        (byMode["upper_bound"][n] # {} /\ byMode["drop"][n] # {}) =>
            SameValues(Val(byMode["upper_bound"][n]), Val(byMode["drop"][n]))

\* C2 witness: the background-subtracted I(Q) was computed in both modes and
\* the variances differ
C2_Witness ==
    /\ byMode["upper_bound"][SubtractedKey] # {}
    /\ byMode["drop"][SubtractedKey] # {}
    /\ \E c \in BinsOf(Val(byMode["drop"][SubtractedKey])) :
          /\ Val(byMode["drop"][SubtractedKey]).rows[c[1]][c[2]].ok
          /\ Val(byMode["drop"][SubtractedKey]).rows[c[1]][c[2]].val # 0
          /\ Val(byMode["drop"][SubtractedKey]).rows[c[1]][c[2]].var
                # Val(byMode["upper_bound"][SubtractedKey]).rows[c[1]][c[2]].var

C9_MissingParameterFailsAtCompute ==
    /\ (request # {} /\ MissingParams(request, params) # {}) =>
          /\ error = "UnsatisfiedRequirement"
          /\ results = NoValues
          /\ calls = NoCalls
    /\ request = {} => error = "none"

\* C9 witness: IofQ[SampleRun] was requested with everything set but BeamCenter
C9_Witness ==
    /\ request = {SampleKey}
    /\ MissingParams(request, params) = {"BeamCenter"}
    /\ error = "UnsatisfiedRequirement"

FailingLoads(keys, P) ==
    {n \in Needed(keys) :
        \/ n = "DetectorData[SampleRun]" /\ ~Val(P.FilenameSample).exists
        \/ n = "DetectorData[BackgroundRun]" /\ ~Val(P.FilenameBackground).exists}

\* C10: when a provider a request needs raises (a file that cannot be
\* loaded), the request raises that provider's exception and returns no
\* result at all; no provider ran more than once and the first failing
\* provider ran exactly once
C10_ProviderFailureAbortsRequest ==
    (request # {} /\ MissingParams(request, params) = {}
        /\ FailingLoads(request, params) # {}) =>
            /\ error = "FileNotFoundError"
            /\ results = NoValues
            /\ \A n \in Nodes : calls[n] <= 1
            /\ \E n \in FailingLoads(request, params) : calls[n] = 1

\* C10 witness: the background file is missing; the sample run's I(Q) was
\* computed but is not returned
C10_Witness ==
    /\ request = IofQKeys
    /\ error = "FileNotFoundError"
    /\ calls[SampleKey] = 1
    /\ results[SampleKey] = {}

\* the value of a result computed directly from the parameters P
FreshMasked(fileparam, P) ==
    MaskData(LoadDetector(Val(P[fileparam]), Val(P.BeamCenter)),
             Val(P.LowCountThreshold))

FreshIofQ(fileparam, P) ==
    IofQ(FreshMasked(fileparam, P), Val(P.QBins), Val(P.WavelengthBands),
         Val(P.DirectBeam), Val(P.UncertaintyBroadcastMode))

Fresh(n, P) ==
    CASE n = SampleKey -> FreshIofQ("FilenameSample", P)
      [] n = BackgroundKey -> FreshIofQ("FilenameBackground", P)
      [] n = SubtractedKey ->
            SubtractBackground(FreshIofQ("FilenameSample", P),
                               FreshIofQ("FilenameBackground", P))

\* C11: whatever was assigned and requested before, every result a request
\* returns is the value computed from the parameters as they are at the
\* request: a value computed from a parameter value that has since been
\* replaced is never returned
C11_ResultsFromCurrentParameters ==
    (request # {} /\ error = "none") =>
        \A n \in request : results[n] = {Fresh(n, params)}

\* C11 witness: the mode was switched to drop, a result computed, the mode
\* switched back to upper_bound, and the result computed after that differs
\* from the one computed with drop
C11_Witness ==
    /\ error = "none"
    /\ params.UncertaintyBroadcastMode = {"upper_bound"}
    /\ results[SubtractedKey] # {}
    /\ byMode["drop"][SubtractedKey] # {}
    /\ byMode["drop"][SubtractedKey] # results[SubtractedKey]

\* C12: within one request no provider runs more than once, for one or for
\* several requested results; in a request that succeeds every identifier
\* that is needed is computed exactly once and nothing else is computed
C12_AtMostOncePerRequest ==
    /\ \A n \in Nodes : calls[n] <= 1
    /\ (request # {} /\ error = "none") =>
          \A n \in Nodes : (calls[n] = 1) = (n \in Needed(request))

\* C12 witness: three results were requested at once, two of which depend
\* on the sample run's detector data, which was loaded once
C12_Witness ==
    /\ request = IofQKeys
    /\ error = "none"
    /\ calls["DetectorData[SampleRun]"] = 1
    /\ calls["DetectorData[BackgroundRun]"] = 1

\* C13 (as stated): a result returned before, with no parameter assigned
\* since, is returned again without its provider or the providers of what it
\* depends on running again
C13_AsStated ==
    error = "none" => \A n \in repeat : \A m \in Needed({n}) : calls[m] = 0

\* C13 (amended): values are shared within one request only; a later separate
\* request runs the provider of every identifier it needs again, once each,
\* also of the identifiers an earlier request has computed under the same
\* parameters (files are loaded again)
C13_SeparateRequestsRecompute ==
    error = "none" => \A n \in repeat : \A m \in Needed({n}) : calls[m] = 1

\* C13 witness: the background-subtracted I(Q) was requested for the second
\* time under the same parameters, and both files were loaded again
C13_Witness ==
    /\ error = "none"
    /\ request = {SubtractedKey}
    /\ repeat = {SubtractedKey}
    /\ calls["DetectorData[SampleRun]"] = 1
    /\ calls["DetectorData[BackgroundRun]"] = 1

\* the wavelength bins between band edges lo and hi
Window(lo, hi) == {l \in Lambdas : lo <= l /\ l < hi}

\* the data with everything outside the wavelength window removed
Restrict(md, w) ==
    [md EXCEPT !.counts = [c \in Cells |-> IF c[2] \in w THEN md.counts[c] ELSE 0],
               !.monitor = [l \in Lambdas |-> IF l \in w THEN md.monitor[l] ELSE 0]]

\* the one-dimensional I(Q) of a run computed only from the data in a window
WindowIofQ(fileparam, P, w) ==
    IofQ(Restrict(FreshMasked(fileparam, P), w), Val(P.QBins), NoBands,
         Val(P.DirectBeam), Val(P.UncertaintyBroadcastMode))

WindowResult(n, P, w) ==
    CASE n = SampleKey -> WindowIofQ("FilenameSample", P, w).rows[1]
      [] n = BackgroundKey -> WindowIofQ("FilenameBackground", P, w).rows[1]
      [] n = SubtractedKey ->
            SubtractBackground(WindowIofQ("FilenameSample", P, w),
                               WindowIofQ("FilenameBackground", P, w)).rows[1]

\* C14: with N + 1 band edges IofQ and BackgroundSubtractedIofQ are
\* two-dimensional with exactly N entries along the band dimension, entry k
\* being the I(Q) of the data whose wavelength lies in band k alone; with
\* WavelengthBands None they are the one-dimensional I(Q) of all wavelengths
C14_BandsAreSeparateIofQ ==
    (request # {} /\ error = "none") =>
        \A n \in request :
            LET r == Val(results[n])
                bands == Val(params.WavelengthBands)
            IN IF bands = NoBands
               THEN /\ r.ndim = 1
                    /\ Len(r.rows) = 1
                    /\ r.rows[1] = WindowResult(n, params, Lambdas)
               ELSE /\ r.ndim = 2
                    /\ Len(r.rows) = Len(bands) - 1
                    /\ \A k \in 1..(Len(bands) - 1) :
                          r.rows[k] =
                              WindowResult(n, params, Window(bands[k], bands[k + 1]))

\* C14 witness: bands are set, the background-subtracted I(Q) has one entry
\* per band and two bands differ
C14_Witness ==
    /\ error = "none"
    /\ params.WavelengthBands = {FullBands}
    /\ results[SubtractedKey] # {}
    /\ Len(Val(results[SubtractedKey]).rows) = NLambda
    /\ Val(results[SubtractedKey]).rows[1] # Val(results[SubtractedKey]).rows[2]
    /\ \E k \in 1..Len(Val(results[SubtractedKey]).rows[1]) :
          Val(results[SubtractedKey]).rows[1][k].ok

SampleNodes ==
    {"DetectorData[SampleRun]", "MaskedData[SampleRun]", "IofQ[SampleRun]"}
BackgroundNodes ==
    {"DetectorData[BackgroundRun]", "MaskedData[BackgroundRun]", "IofQ[BackgroundRun]"}

\* the identifiers that lead to one of keys through the graph's edges
RECURSIVE Upstream(_)
Upstream(keys) ==
    LET more == keys \cup {d \in Nodes : \E n \in keys : d \in NodeDeps(n)}
    IN IF more = keys THEN keys ELSE Upstream(more)

\* every provider in the sequence comes after the providers of its inputs
InputsFirst(sched) ==
    \A i \in 1..Len(sched) :
        \A d \in NodeDeps(sched[i]) : \E j \in 1..(i - 1) : sched[j] = d

\* C26: a request runs a provider only if a requested result depends on it,
\* directly or through other results, and only after the providers of its
\* inputs; a request for IofQ[SampleRun] alone runs no provider of the
\* background run and succeeds whether or not Filename[BackgroundRun] is set
\* or names a file that exists
C26_OnlyWhatTheRequestNeeds ==
    /\ \A n \in Nodes : calls[n] > 0 => n \in Upstream(request)
    /\ \A n \in Nodes : calls[n] > 0 => \A d \in NodeDeps(n) : calls[d] > 0
    /\ request # {} => InputsFirst(Schedule(request, held))
    /\ request = {SampleKey} =>
          /\ \A n \in BackgroundNodes \cup {SubtractedKey} : calls[n] = 0
          /\ (/\ \A n \in SampleNodes : \A q \in ParamDeps(n) : params[q] # {}
              /\ Val(params.FilenameSample).exists) =>
                 /\ error = "none"
                 /\ results[SampleKey] # {}
                 /\ \A n \in SampleNodes : calls[n] = 1

\* C26 witness: IofQ[SampleRun] was requested and returned while
\* Filename[BackgroundRun] was never set
C26_Witness ==
    /\ request = {SampleKey}
    /\ params.FilenameBackground = {}
    /\ error = "none"
    /\ results[SampleKey] # {}
    /\ calls["DetectorData[SampleRun]"] = 1
    /\ calls["DetectorData[BackgroundRun]"] = 0

\* C26 witness of the other case: the background file does not exist
C26_WitnessMissingFile ==
    /\ request = {SampleKey}
    /\ params.FilenameBackground # {}
    /\ ~Val(params.FilenameBackground).exists
    /\ error = "none"
    /\ results[SampleKey] # {}

\* the value of one band and Q bin computed from the runs' files directly:
\* the counts of all runs over the normalisation terms of all runs
MergedBin(files, P, band, lo, hi) ==
    LET md == [i \in DOMAIN files |->
                  MaskData(LoadDetector(files[i], Val(P.BeamCenter)),
                           Val(P.LowCountThreshold))]
        sums == [i \in DOMAIN files |-> BinSums(md[i], band, lo, hi, Val(P.DirectBeam))]
    IN Normalize(SumOver(DOMAIN files, [i \in DOMAIN files |-> sums[i].num]),
                 SumOver(DOMAIN files, [i \in DOMAIN files |-> sums[i].den]),
                 SumOver(DOMAIN files, [i \in DOMAIN files |-> sums[i].monsum]),
                 Val(P.UncertaintyBroadcastMode))

\* the value of one band and Q bin of one run on its own
SingleRunBin(file, P, band, lo, hi) == MergedBin(<< file >>, P, band, lo, hi)

\* C27: on a workflow mapped over several runs, a successful request loads
\* and masks every run of a role it needs once each and normalizes once per
\* role; the I(Q) of a role is the merged detector contributions of all its
\* runs over the merged monitor contributions of all its runs; a role that
\* was not mapped is computed as on the base workflow
C27_RunsMergedBeforeNormalization ==
    (request # {} /\ error = "none") =>
        /\ \A r \in RolesNeeded(request) :
              /\ calls[DetectorNode(r)] = Len(RunFiles(r, params, runs))
              /\ calls[MaskedNode(r)] = Len(RunFiles(r, params, runs))
              /\ calls[IofQNode(r)] = 1
              /\ IofQNode(r) \in request =>
                    LET iq == Val(results[IofQNode(r)])
                        qb == Val(params.QBins)
                        sets == BandSets(Val(params.WavelengthBands))
                    IN /\ Len(iq.rows) = Len(sets)
                       /\ \A b \in 1..Len(sets) : \A k \in 1..(Len(qb) - 1) :
                             iq.rows[b][k] =
                                 MergedBin(RunFiles(r, params, runs), params,
                                           sets[b], qb[k], qb[k + 1])
        /\ \A r \in Roles \ RolesNeeded(request) :
              calls[DetectorNode(r)] = 0 /\ calls[IofQNode(r)] = 0
        /\ runs = NoRuns =>
              results = ComputeRequest(request, params, NoValues).results

\* C27 witness: the sample and the background role are mapped over two runs
\* each, both files of each role were loaded, and the merged I(Q) of the
\* sample runs is neither that of its first run nor that of its second
C27_Witness ==
    /\ request = IofQKeys
    /\ error = "none"
    /\ Len(runs["SampleRun"]) = 2 /\ Len(runs["BackgroundRun"]) = 2
    /\ calls["DetectorData[SampleRun]"] = 2
    /\ calls["DetectorData[BackgroundRun]"] = 2
    /\ \A i \in 1..2 :
          \E k \in 1..(Len(Val(params.QBins)) - 1) :
              Val(results[SampleKey]).rows[1][k] #
                  SingleRunBin(runs["SampleRun"][i], params, Lambdas,
                               Val(params.QBins)[k], Val(params.QBins)[k + 1])

(***************************************************************************)
(* Properties of the beam centre finders.                               *)
(***************************************************************************)
\* the centre the sample file's scattering is symmetric about
SampleCentre == Centre(Val(params.FilenameSample).cx, Val(params.FilenameSample).cy, Grid)

SamePoint(a, b) == a.sx * b.w = b.sx * a.w /\ a.sy * b.w = b.sy * a.w

Unmasked(md) == Pixels \ md.masked

\* the unmasked pixels and their counts are mirror images of each other in
\* the vertical and in the horizontal line through c
Mirrored(md, c) ==
    \A p \in Unmasked(md) :
        /\ \E q \in Unmasked(md) :
              /\ Dx(q, c) = -Dx(p, c) /\ Dy(q, c) = Dy(p, c)
              /\ PixelCounts(md, q) = PixelCounts(md, p)
        /\ \E q \in Unmasked(md) :
              /\ Dx(q, c) = Dx(p, c) /\ Dy(q, c) = -Dy(p, c)
              /\ PixelCounts(md, q) = PixelCounts(md, p)

\* the counts-weighted first moments of the unmasked pixels about c
MomentX(md, c) ==
    SumOver(Unmasked(md), [p \in Unmasked(md) |-> PixelCounts(md, p) * Dx(p, c)])
MomentY(md, c) ==
    SumOver(Unmasked(md), [p \in Unmasked(md) |-> PixelCounts(md, p) * Dy(p, c)])

\* C4: the value beam_center_from_center_of_mass returns is the centroid of
\* the pixel positions weighted by the counts of the unmasked pixels (the
\* weighted first moments about it vanish); it is obtained without a single
\* evaluation of the cost; and when the unmasked data are mirror-symmetric
\* about a known centre, it is that centre
C4_CenterOfMassIsCentroid ==
    com # {} =>
        LET c == Val(com)
            md == MaskedSample(params)
        IN /\ c.w > 0
           /\ MomentX(md, c) = 0
           /\ MomentY(md, c) = 0
           /\ Mirrored(md, SampleCentre) => SamePoint(c, SampleCentre)
           /\ bcPc = "com" => (evals = 0 /\ trial = {})

\* C4 witness: the centre of mass was computed from data with masked pixels
\* that hold counts, symmetric about a centre that is not the panel's
C4_Witness ==
    /\ bcPc = "com"
    /\ \E p \in MaskedSample(params).masked : PixelCounts(MaskedSample(params), p) > 0
    /\ Mirrored(MaskedSample(params), SampleCentre)
    /\ ~SamePoint(SampleCentre, Centre(PanelMax, PanelMax, 2))
    /\ SamePoint(Val(com), SampleCentre)

\* no unmasked pixel lies on a cut through c
NoPixelOnCuts(md, c) == \A p \in Unmasked(md) : Dx(p, c) # 0 /\ Dy(p, c) # 0

\* every quadrant about c has an unmasked pixel in every Q bin
AllBinsCovered(md, c, qbins) ==
    \A q \in Quadrants : \A k \in 1..(Len(qbins) - 1) :
        \E cell \in Cells :
            /\ cell[1] \in Unmasked(md)
            /\ InQuadrant(cell[1], c, q)
            /\ InQBin(cell[1], cell[2], c, qbins[k], qbins[k + 1])

\* the trial centres of the half-pixel grid within the bounds
TrialGrid == {Centre(i, j, Grid) : i \in (XMin * Grid)..(XMax * Grid),
                                   j \in (YMin * Grid)..(YMax * Grid)}

\* a and c are at most one grid step apart in x and in y
WithinTolerance(a, c) ==
    /\ (a.sx * c.w - c.sx * a.w) * Grid <= a.w * c.w
    /\ (c.sx * a.w - a.sx * c.w) * Grid <= a.w * c.w
    /\ (a.sy * c.w - c.sy * a.w) * Grid <= a.w * c.w
    /\ (c.sy * a.w - a.sy * c.w) * Grid <= a.w * c.w

C6_TrialsWithinPanel ==
    \A t \in first \cup trial \cup best \cup found : InBounds(t)

\* C6 witness: a line search was cut off at the edge of the panel, and the
\* search returned
C6_Witness ==
    /\ bcPc = "done"
    /\ \E t \in trial :
          /\ ~SamePoint(t, Val(first))
          /\ t.sx = XMin * t.w \/ t.sy = YMin * t.w
          /\ \E k \in Steps : \E d \in {"x", "y"} :
                ~InBounds(Move(Val(best), d, k)) /\ Reduce(Clip(Move(Val(best), d, k))) = t

\* a step of one of the two finders (a call, a cost evaluation, a return)
FinderStep == bcPc' # bcPc \/ evals' # evals

\* C15: no step of beam_center_from_center_of_mass or beam_center_from_iofq
\* changes the workflow's BeamCenter (nor any other parameter): it is after
\* the call what it was before, unset if it was unset; BeamCenter changes
\* only in a step that is no finder step, the caller's assignment
C15_FindersOnlyReturnCentre ==
    [][/\ FinderStep => params' = params
       /\ params'.BeamCenter # params.BeamCenter =>
             ~FinderStep /\ params'.BeamCenter = com]_vars

\* C15 witness: both finders have returned a centre and BeamCenter is still
\* unset
C15_Witness ==
    /\ bcPc = "done"
    /\ com # {}
    /\ found # {}
    /\ params.BeamCenter = {}

\* C21: the first trial centre at which beam_center_from_iofq evaluates the
\* cost is the centre of mass of the workflow's masked sample data, whatever
\* the workflow's BeamCenter is, and the search starts with that one
\* evaluation
C21_FirstTrialIsCenterOfMass ==
    /\ bcPc \in {"searching", "done"} =>
          /\ first = {CenterOfMass(MaskedSample(params))}
          /\ evals >= 1
    /\ (bcPc = "searching" /\ evals = 1) => (trial = first /\ best = first)

\* C21 witness: the workflow's BeamCenter was the origin, and the search
\* that has returned started at the centre of mass, which is another point
C21_Witness ==
    /\ bcPc = "done"
    /\ params.BeamCenter = {Centre(0, 0, 1)}
    /\ first # {}
    /\ ~SamePoint(Val(first), Centre(0, 0, 1))
    /\ Val(first).w > 0

C22_WitnessTolerance ==
    /\ bcPc = "done"
    /\ evals < MaxEvals
    /\ stale = 2
    /\ found = best

\* the four quadrant curves about the best centre of the running search
BestCurves ==
    IofQInQuadrants(Val(best), MaskedSample(params), qarg,
                    Val(params.DirectBeam), Val(params.UncertaintyBroadcastMode))

\* the four quadrant curves have the same value in every Q bin
CurvesCoincide(iq, K) ==
    \A k \in K : \A q1, q2 \in Quadrants : iq[q1][k].val = iq[q2][k].val

\* sum_Q sum_i Ibar (I_i - Ibar)^2 over sum_Q Ibar, as a fraction: with S the
\* sum of the four curves in a bin, sum_i (I_i - S/4)^2 = sum_i I_i^2 - S^2/4
WeightedSpreadNum(iq, K) ==
    SumOver(K, [k \in K |->
        LET S == SumOver(Quadrants, [q \in Quadrants |-> iq[q][k].val])
            sq == SumOver(Quadrants, [q \in Quadrants |-> iq[q][k].val * iq[q][k].val])
        IN S * (4 * sq - S * S)])

WeightedSpreadDen(iq, K) ==
    4 * SumOver(K, [k \in K |->
            SumOver(Quadrants, [q \in Quadrants |-> iq[q][k].val])])

\* C23: the cost the search holds for its best centre is the Ibar-weighted
\* sum over Q bins and quadrants of the squared differences from the mean
\* curve, divided by the sum of Ibar; it is not negative, and it is 0 when
\* the four quadrant curves coincide
C23_CostIsWeightedSpread ==
    (bcPc \in {"searching", "done"} /\ bestCost.ok) =>
        LET iq == BestCurves
            K == 1..(Len(qarg) - 1)
        IN /\ \A k \in K : \A q \in Quadrants : iq[q][k].ok /\ iq[q][k].val >= 0
           /\ WeightedSpreadDen(iq, K) > 0
           /\ ~FracLess(bestCost.num, bestCost.den,
                        WeightedSpreadNum(iq, K), WeightedSpreadDen(iq, K))
           /\ ~FracLess(WeightedSpreadNum(iq, K), WeightedSpreadDen(iq, K),
                        bestCost.num, bestCost.den)
           /\ bestCost.num >= 0 /\ bestCost.den > 0
           /\ CurvesCoincide(iq, K) => bestCost.num = 0

\* C23 witness: a search returned a centre where the four curves coincide
\* and are not all empty, with cost 0, after a trial at a centre where the
\* cost is positive
C23_Witness ==
    /\ bcPc = "done"
    /\ bestCost.ok /\ bestCost.num = 0
    /\ \E t \in trial : /\ CostAt(t, params, qarg).ok
                        /\ CostAt(t, params, qarg).num > 0
    /\ CurvesCoincide(BestCurves, 1..(Len(qarg) - 1))
    /\ \E k \in 1..(Len(qarg) - 1) : BestCurves["north-east"][k].val > 0

\* the unmasked pixels that contribute to the I(Q) of quadrant q about xy
Contributing(md, xy, q) == Unmasked(QuadrantData(md, xy, q))

\* some unmasked pixel lies on the vertical and some on the horizontal cut
PixelsOnBothCuts(md, xy) ==
    /\ \E p \in Unmasked(md) : Dx(p, xy) = 0 /\ Dy(p, xy) # 0
    /\ \E p \in Unmasked(md) : Dy(p, xy) = 0 /\ Dx(p, xy) # 0

BeamBefore(res, k) ==
    IF k = 1 THEN FlatDirectBeam(Val(params.WavelengthBands))
    ELSE res[k - 1].direct_beam

\* entry k of the list is what iteration k computes from the direct beam
\* left by iteration k - 1
InIterationOrder(res) ==
    \A k \in 1..Len(res) :
        /\ DOMAIN res[k] = {"iofq_full", "iofq_bands", "direct_beam"}
        /\ res[k] = DirectBeamIteration(MaskedSample(params), Val(params.QBins),
                                        Val(params.WavelengthBands),
                                        Val(params.UncertaintyBroadcastMode),
                                        i0, BeamBefore(res, k))

ExactlyNiter ==
    /\ dbPc = "running" => (iter <= niter /\ Len(dbResults) = iter)
    /\ dbPc = "done" =>
          /\ niter >= 1
          /\ iter = niter
          /\ Len(returned) = niter
          /\ InIterationOrder(returned)
          /\ returned[niter].direct_beam = db

BandsAgree(r, I0) ==
    /\ \A b \in 1..Len(r.iofq_bands) : \A k \in 1..Len(r.iofq_full) :
          /\ r.iofq_bands[b][k].ok
          /\ r.iofq_full[k].ok
          /\ r.iofq_bands[b][k].val = r.iofq_full[k].val
    /\ r.iofq_full[1].val = I0

\* C8: an iteration that finds the I(Q) of every band equal to the
\* full-range I(Q) and the full-range I(Q) at the lowest Q equal to I0
\* leaves the direct beam as it was: every band factor and the global
\* factor are 1
C8_AgreeingBandsLeaveBeamUnchanged ==
    \A k \in 1..Len(dbResults) :
        BandsAgree(dbResults[k], i0) =>
            /\ dbResults[k].direct_beam = BeamBefore(dbResults, k)
            /\ GlobalFactor(dbResults[k].iofq_full, i0) = Scale
            /\ \A b \in 1..Len(dbResults[k].iofq_bands) :
                  BandFactor(dbResults[k].iofq_bands[b], dbResults[k].iofq_full) = Scale

\* C8 witness: the second iteration found the bands in agreement, with a
\* direct beam that the first iteration had changed
C8_Witness ==
    /\ Len(dbResults) >= 2
    /\ BandsAgree(dbResults[2], i0)
    /\ dbResults[1].direct_beam # FlatDirectBeam(Val(params.WavelengthBands))
    /\ dbResults[2].direct_beam = dbResults[1].direct_beam

Abs(x) == IF x < 0 THEN -x ELSE x

\* what rounding to multiples of 1 / Scale leaves undecided
Tol == Scale \div 6

\* the factor of band b in entry r
FactorOf(r, b) == BandFactor(r.iofq_bands[b], r.iofq_full)

\* how far the I(Q) of band b in entry r is from the full-range I(Q): the
\* distance from 1 of their ratio aggregated over Q
Mismatch(r, b) == Abs(FactorOf(r, b) - Scale)

\* the I(Q) of band b multiplied by f is, on aggregate over Q, the full-range
\* I(Q)
OverlapsWhenMultiplied(r, b, f) ==
    LET K == ValidBins(r.iofq_bands[b], r.iofq_full)
    IN Abs(SumOver(K, [q \in K |->
                (f * r.iofq_bands[b][q].val) \div r.iofq_full[q].val])
              \div Cardinality(K) - Scale) <= Tol

\* the I(Q) of band b divided by f is, on aggregate over Q, the full-range
\* I(Q)
OverlapsWhenDivided(r, b, f) ==
    LET K == ValidBins(r.iofq_bands[b], r.iofq_full)
    IN Abs(SumOver(K, [q \in K |->
                (r.iofq_bands[b][q].val * Scale * Scale)
                    \div (f * r.iofq_full[q].val)])
              \div Cardinality(K) - Scale) <= Tol

\* the bands of entry r for which a factor is defined
FactorBands(r) ==
    {b \in 1..Len(r.iofq_bands) :
        ValidBins(r.iofq_bands[b], r.iofq_full) # {} /\ FactorOf(r, b) > 0}

\* iteration k multiplied the direct-beam values of every band by the
\* band's factor (and by the global factor)
MultipliedByFactors(res, k) ==
    /\ res[k].direct_beam.edges = BeamBefore(res, k).edges
    /\ \A b \in 1..Len(res[k].iofq_bands) :
          res[k].direct_beam.vals[b] =
              (((BeamBefore(res, k).vals[b] * FactorOf(res[k], b)) \div Scale)
                  * GlobalFactor(res[k].iofq_full, i0)) \div Scale

\* the I(Q) recomputed by the next iteration is closer to the full-range
\* I(Q) in every band, up to rounding
MismatchReduced(res, k) ==
    \A b \in FactorBands(res[k]) :
        /\ b \in FactorBands(res[k + 1])
        /\ Mismatch(res[k + 1], b) <= Max(Mismatch(res[k], b) - 1, Tol)

C17_FactorRescalesOwnBandOnly ==
    \A k \in 1..Len(dbResults) :
        LET r == dbResults[k]
            before == BeamBefore(dbResults, k)
            g == GlobalFactor(r.iofq_full, i0)
        IN \A c \in 1..Len(r.iofq_bands) :
              /\ r.direct_beam.vals[c] =
                    (((before.vals[c] * FactorOf(r, c)) \div Scale) * g) \div Scale
              /\ FactorOf(r, c) = Scale =>
                    r.direct_beam.vals[c] = (before.vals[c] * g) \div Scale
              /\ \A l \in Window(r.direct_beam.edges[c], r.direct_beam.edges[c + 1]) :
                    BeamAt(r.direct_beam, l) = r.direct_beam.vals[c]

\* C17 witness: in one iteration a band has factor 1 and another band has a
\* factor other than 1 that changed its direct-beam value
C17_Witness ==
    \E k \in 1..Len(dbResults) :
        \E c, b \in 1..Len(dbResults[k].iofq_bands) :
            /\ FactorOf(dbResults[k], c) = Scale
            /\ FactorOf(dbResults[k], b) \notin {0, Scale}
            /\ dbResults[k].direct_beam.vals[b]
                  # (BeamBefore(dbResults, k).vals[b]
                        * GlobalFactor(dbResults[k].iofq_full, i0)) \div Scale

CarriedBeam ==
    IF dbResults = <<>> THEN FlatDirectBeam(Val(params.WavelengthBands))
    ELSE dbResults[Len(dbResults)].direct_beam

\* C19: between iterations the call carries the direct beam and nothing
\* else: the first iteration computes the full-range and the per-band I(Q)
\* with the flat direct beam, iteration k + 1 with the direct beam iteration
\* k produced; the factors of an iteration come from the I(Q) computed at
\* its start; and two iterations that start from the same direct beam produce
\* the same entry
C19_OnlyDirectBeamCarried ==
    (dbPc # "idle") =>
        LET md == MaskedSample(params)
            qbins == Val(params.QBins)
            bands == Val(params.WavelengthBands)
            mode == Val(params.UncertaintyBroadcastMode)
        IN /\ db = CarriedBeam
           /\ \A k \in 1..Len(dbResults) :
                 /\ dbResults[k].iofq_full =
                       IofQ(md, qbins, FullRange(bands), BeamBefore(dbResults, k),
                            mode).rows[1]
                 /\ dbResults[k].iofq_bands =
                       IofQ(md, qbins, bands, BeamBefore(dbResults, k), mode).rows
                 /\ MultipliedByFactors(dbResults, k)
           /\ \A j, k \in 1..Len(dbResults) :
                 BeamBefore(dbResults, j) = BeamBefore(dbResults, k) =>
                     dbResults[j] = dbResults[k]

\* C19 witness: the first iteration changed the direct beam and the second
\* iteration computed other I(Q) in the bands than the first
C19_Witness ==
    /\ Len(dbResults) >= 2
    /\ dbResults[1].direct_beam # FlatDirectBeam(Val(params.WavelengthBands))
    /\ dbResults[2].iofq_bands # dbResults[1].iofq_bands
    /\ dbResults[2].iofq_full # dbResults[1].iofq_full

\* one non-negative value per wavelength band
OnePerBand(vals, bands) ==
    /\ DOMAIN vals = 1..(Len(bands) - 1)
    /\ \A b \in DOMAIN vals : vals[b] \in Nat

\* the direct beam has the workflow's band edges and one value per band, for
\* each layer when 'layer' is kept
BeamShape(beam, bands, dims) ==
    /\ beam.edges = bands
    /\ IF dims = NoDims THEN OnePerBand(beam.vals, bands)
       ELSE /\ DOMAIN beam.vals = Layers
            /\ \A y \in Layers : OnePerBand(beam.vals[y], bands)

\* a curve with dimension 'Q'
IsCurve(x, qbins) ==
    /\ DOMAIN x = 1..(Len(qbins) - 1)
    /\ \A q \in DOMAIN x : DOMAIN x[q] = {"ok", "val", "var"}

\* the full-range I(Q) has dimension 'Q' and the I(Q) in bands one such curve
\* per band; with 'layer' kept they have dimensions 'layer', 'Q', and one
\* such array per band
IofQShape(r, qbins, bands, dims) ==
    IF dims = NoDims
    THEN /\ IsCurve(r.iofq_full, qbins)
         /\ DOMAIN r.iofq_bands = 1..(Len(bands) - 1)
         /\ \A b \in DOMAIN r.iofq_bands : IsCurve(r.iofq_bands[b], qbins)
    ELSE /\ DOMAIN r.iofq_full = Layers
         /\ DOMAIN r.iofq_bands = Layers
         /\ \A y \in Layers :
               /\ IsCurve(r.iofq_full[y], qbins)
               /\ DOMAIN r.iofq_bands[y] = 1..(Len(bands) - 1)
               /\ \A b \in DOMAIN r.iofq_bands[y] : IsCurve(r.iofq_bands[y][b], qbins)

\* C20: throughout a call of direct_beam the direct beam, before the first
\* iteration and in the entry of every iteration, has the wavelength edges of
\* the workflow's bands and exactly one value per band; with 'layer' in
\* DimsToKeep it has one value per band for each layer and the I(Q) have
\* dimensions 'layer', 'Q'
C20_OneValuePerBand ==
    (dbPc # "idle") =>
        LET bands == Val(params.WavelengthBands)
            dims == Val(params.DimsToKeep)
        IN /\ BeamShape(db, bands, dims)
           /\ \A k \in 1..Len(dbResults) :
                 /\ BeamShape(dbResults[k].direct_beam, bands, dims)
                 /\ IofQShape(dbResults[k], Val(params.QBins), bands, dims)
           /\ dbPc = "done" =>
                 BeamShape(returned[Len(returned)].direct_beam, bands, dims)

\* C20 witness: a call on a workflow that keeps 'layer' returned direct beams
\* that differ between two layers, with one value for each of the bands
C20_Witness ==
    /\ dbPc = "done"
    /\ params.DimsToKeep = {KeepLayer}
    /\ params.WavelengthBands = {FullBands}
    /\ \E y, z \in Layers :
          /\ Len(returned[niter].direct_beam.vals[y]) = NLambda
          /\ returned[niter].direct_beam.vals[y] # returned[niter].direct_beam.vals[z]

\* C28: no step of a call of sans.direct_beam changes a parameter of the
\* caller's workflow, so that WavelengthBands, DirectBeam and every other
\* parameter are after the call what they were before it; every call, also
\* one made after an earlier call returned and only DimsToKeep was assigned,
\* starts from the flat direct beam, and its first result is the one
\* computed from the flat direct beam
C28_CallerWorkflowUntouched ==
    /\ [][dbPc' \in {"running", "done"} => params' = params]_vars
    /\ [][(dbPc = "idle" /\ dbPc' = "running") =>
            /\ dbResults' = <<>>
            /\ db' = FlatDirectBeamKeeping(Val(params.DimsToKeep),
                                           Val(params.WavelengthBands))]_vars
    /\ []((dbPc \in {"running", "done"} /\ dbResults # <<>>) =>
            dbResults[1] =
                DirectBeamIterationKeeping(
                    Val(params.DimsToKeep), MaskedSample(params), Val(params.QBins),
                    Val(params.WavelengthBands), Val(params.UncertaintyBroadcastMode),
                    i0,
                    FlatDirectBeamKeeping(Val(params.DimsToKeep),
                                          Val(params.WavelengthBands))))

\* C28 witness: a call returned a direct beam that is not flat, DimsToKeep
\* was assigned, and a second call on the same workflow is past its first
\* iteration; the workflow's DirectBeam is still unset and its
\* WavelengthBands are still the bands of before
C28_Witness ==
    /\ dbPc = "running"
    /\ iter >= 1
    /\ params.DimsToKeep = {KeepLayer}
    /\ params.DirectBeam = {}
    /\ params.WavelengthBands = {FullBands}
    /\ returned # <<>>
    /\ returned[Len(returned)].direct_beam #
          FlatDirectBeamKeeping(NoDims, Val(params.WavelengthBands))

\* the numerator, denominator and monitor sums of Q bin j for each band and
\* for the full range, with the direct beam iteration k started from
BandSums(res, k, j) ==
    LET sets == BandSets(Val(params.WavelengthBands))
    IN [b \in 1..Len(sets) |->
           BinSums(MaskedSample(params), sets[b], Val(params.QBins)[j],
                   Val(params.QBins)[j + 1], BeamBefore(res, k))]

FullSums(res, k, j) ==
    BinSums(MaskedSample(params),
            BandSets(FullRange(Val(params.WavelengthBands)))[1],
            Val(params.QBins)[j], Val(params.QBins)[j + 1], BeamBefore(res, k))

SumOfBands(sums, field) ==
    SumOver(DOMAIN sums, [b \in DOMAIN sums |-> sums[b][field]])

\* the bands are contiguous, do not overlap and cover the wavelength bins
BandsTile(bands) ==
    /\ Len(bands) >= 2
    /\ bands[1] = 1 /\ bands[Len(bands)] = NLambda + 1
    /\ \A k \in 1..(Len(bands) - 1) : bands[k] < bands[k + 1]

====
